---- MODULE Spec2Model ----
(***************************************************************************)
(* Model of generate.py (HAVEN2LLaVA): the resilient fetcher, the worker   *)
(* pool running process_group, and the coordinator that loads, snapshots   *)
(* and finally writes the JSON dataset.                                    *)
(***************************************************************************)
EXTENDS Integers, Sequences, FiniteSets, TLC

VARIABLES
    pc,             \* position of the main execution flow (lines 151-198)
    df,             \* rows returned by pd.read_sql
    dataset,        \* the in-memory list of records
    existing_cids,  \* ids found in the loaded document
    future_to_cid,  \* the submitted futures, one per cid, with their state
    cur,            \* the future being handled by the draining loop
    fileOut,        \* the file at JSON_OUT
    fileTmp,        \* the file at JSON_OUT + '.tmp'
    images,         \* the files of IMAGE_FOLDER: name -> content
    log,            \* messages emitted by logging.error
    loaded,         \* the document as json.load returned it in this run
    runs,           \* number of process starts so far
    f_in,           \* arguments and environment of one fetcher call
    f_out,          \* what that call did
    calls,          \* the save_image calls in progress, one per thread
    sequential,     \* whether those calls are made one after the other
    p_in,           \* arguments and environment of one process_group call
    p_out           \* what that call did

vars == <<pc, df, dataset, existing_cids, future_to_cid, cur, fileOut, fileTmp,
          images, log, loaded, runs, f_in, f_out, calls, sequential, p_in,
          p_out>>

mainVars == <<pc, df, dataset, existing_cids, future_to_cid, cur, fileOut,
              fileTmp, images, log, loaded, runs>>

fetchVars == <<f_in, f_out>>

auxVars == <<calls, sequential, p_in, p_out>>

-----------------------------------------------------------------------------
(* Bounds *)

\* largest retry budget given to the fetcher in the fetcher specification
MaxRetriesBound == 3

\* number of process starts (first run plus reruns after a kill or an end)
MaxRuns == 2

-----------------------------------------------------------------------------
(* Program constants *)

THREADS == 10
DefaultMaxRetries == 10
DefaultBaseDelay == 2
DefaultMaxDelay == 30

-----------------------------------------------------------------------------
(* Values *)

None == "None"
EmptyBytes == ""

\* the immutable blob the gateway serves for a content identifier: two
\* bytes, so that a write can stop with none, one or both in the file
Blob(cid) == "i" \o cid

Min(a, b) == IF a <= b THEN a ELSE b

\* what one requests.get can do: return a response, raise a
\* requests.exceptions.RequestException, or raise something else
Http(sc, content) == [kind |-> "http", sc |-> sc, content |-> content]
RequestException == [kind |-> "RequestException"]
OtherException == [kind |-> "Exception"]

StatusCodes == {200, 301, 403, 404, 429, 500, 599, 600}

Responses(cid) ==
    {Http(sc, Blob(cid)) : sc \in StatusCodes}
        \cup {Http(200, EmptyBytes), RequestException, OtherException}

-----------------------------------------------------------------------------
(* fetch_ipfs_image_exponential_backoff, lines 47-77 *)

\* line 59: elif sc == 429 or sc >= 500
IsRetryStatus(sc) == sc = 429 \/ sc >= 500

\* lines 60 and 69: if attempt == max_retries: return None
BudgetMutantNeverExhausted(attempt, max_retries) == FALSE

BudgetExhausted(attempt, max_retries) == attempt = max_retries

\* lines 62 and 71: delay = min(max_delay, base_delay * (2 ** (attempt - 1)))
BackoffDelayMutantNoCapShift(attempt, base_delay, max_delay) ==
    Min(max_delay, base_delay * (2 ^ attempt))

BackoffDelay(attempt, base_delay, max_delay) ==
    Min(max_delay, base_delay * (2 ^ (attempt - 1)))

\* the outcome of one pass through the try block (lines 52-76):
\* "return" with a value, or "retry" (sleep, then continue)
Classify(r, attempt, max_retries) ==
    IF r.kind = "http"
    THEN IF r.sc = 200
         THEN [do |-> "return", value |-> r.content]
         ELSE IF r.sc = 404 \/ r.sc = 403
         THEN [do |-> "return", value |-> None]
         ELSE IF IsRetryStatus(r.sc)
         THEN IF BudgetExhausted(attempt, max_retries)
              THEN [do |-> "return", value |-> None]
              ELSE [do |-> "retry"]
         ELSE [do |-> "return", value |-> None]
    ELSE IF r.kind = "RequestException"
    THEN IF BudgetExhausted(attempt, max_retries)
         THEN [do |-> "return", value |-> None]
         ELSE [do |-> "retry"]
    ELSE [do |-> "return", value |-> None]

\* The while loop. a is the value of attempt before the loop test; resps[i]
\* is what the i-th requests.get does, jitters[i] what the i-th
\* random.uniform(0, 1) returns; sleeps collects the arguments of time.sleep.
RECURSIVE FetchLoop(_, _, _, _, _, _, _)
FetchLoop(a, sleeps, resps, jitters, max_retries, base_delay, max_delay) ==
    IF ~(a < max_retries)
    THEN [result |-> None, attempts |-> a, sleeps |-> sleeps]
    ELSE LET attempt == a + 1
             c == Classify(resps[attempt], attempt, max_retries)
         IN  IF c.do = "return"
             THEN [result |-> c.value, attempts |-> attempt, sleeps |-> sleeps]
             ELSE FetchLoop(attempt,
                            Append(sleeps,
                                   BackoffDelay(attempt, base_delay, max_delay)
                                       + jitters[Len(sleeps) + 1]),
                            resps, jitters, max_retries, base_delay, max_delay)

fetch_ipfs_image_exponential_backoff(resps, jitters, max_retries, base_delay, max_delay) ==
    FetchLoop(0, <<>>, resps, jitters, max_retries, base_delay, max_delay)

-----------------------------------------------------------------------------
(* The fetcher on its own: one call on drawn arguments and a drawn network *)

FetchCid == "a"
Jitters == {0, 1}
BaseDelays == {1, DefaultBaseDelay}
MaxDelays == {3, DefaultMaxDelay}

NotCalled == [called |-> FALSE]

\* the calls with a retry budget of m: what each requests.get does and
\* what each random.uniform returns
FetchInputs(m) ==
    [ resps : [1..m -> Responses(FetchCid)],
      jitters : [1..m -> Jitters],
      max_retries : {m},
      base_delay : BaseDelays,
      max_delay : MaxDelays ]

FetchCall ==
    /\ f_out = NotCalled
    /\ f_out' = [called |-> TRUE] @@
                fetch_ipfs_image_exponential_backoff(
                    f_in.resps, f_in.jitters, f_in.max_retries,
                    f_in.base_delay, f_in.max_delay)
    /\ UNCHANGED <<f_in, mainVars, auxVars>>

-----------------------------------------------------------------------------
(* The record source: rows of (thumbnail_cid, actions), lines 28-44, 153 *)

CIDs == {"a", "b"}

\* the cids in the order the query returns their rows
RowOrder == <<"a", "b">>

\* ARRAY_AGG(a.action_name ORDER BY ... DESC): the labels a cid can have at
\* the time of a query, one or more; a NULL action_name arrives as None
ActionChoices(cid) ==
    IF cid = "a"
    THEN {<<"kick", "pass", "run", "jump", "dive">>}
    ELSE {<<"kick">>, <<"kick", None>>}

Row(cid, actions) == [thumbnail_cid |-> cid, actions |-> actions]

RECURSIVE RowsOver(_)
RowsOver(order) ==
    IF order = <<>> THEN {<<>>}
    ELSE LET rest == RowsOver(Tail(order))
         IN  rest \cup { <<Row(Head(order), acts)>> \o r :
                           acts \in ActionChoices(Head(order)), r \in rest }

\* GROUP BY vc.thumbnail: every cid occurs in at most one row
Sources == RowsOver(RowOrder)

RowCids(rows) == { rows[i].thumbnail_cid : i \in 1..Len(rows) }

\* line 166: the labels submitted with a cid are those of its own row
ActionsInMutantFirstRow(rows, cid) == rows[1].actions

ActionsIn(rows, cid) ==
    rows[CHOOSE i \in 1..Len(rows) : rows[i].thumbnail_cid = cid].actions

-----------------------------------------------------------------------------
(* Files and JSON text *)

Absent == [exists |-> FALSE]
File(content) == [exists |-> TRUE, content |-> content]

\* the text json.dump produces, as a sequence of tokens
LB == [t |-> "["]
RB == [t |-> "]"]
LC == [t |-> "{"]
RC == [t |-> "}"]
Members(rec) == [t |-> "members", v |-> rec]

RECURSIVE DumpItems(_)
DumpItems(ds) ==
    IF ds = <<>> THEN <<>>
    ELSE <<LC, Members(Head(ds)), RC>> \o DumpItems(Tail(ds))

\* json.dump(dataset, f, indent=2), lines 173, 185, 196
Dump(ds) == <<LB>> \o DumpItems(ds) \o <<RB>>

ParseError == [ok |-> FALSE]

RECURSIVE LoadItems(_, _)
LoadItems(toks, acc) ==
    IF toks = <<>> THEN [ok |-> TRUE, value |-> acc]
    ELSE IF /\ Len(toks) >= 3
            /\ toks[1] = LC
            /\ toks[2].t = "members"
            /\ toks[3] = RC
         THEN LoadItems(SubSeq(toks, 4, Len(toks)), Append(acc, toks[2].v))
         ELSE ParseError

\* json.load(f), line 158: the list, or a JSONDecodeError
Load(toks) ==
    IF Len(toks) >= 2 /\ toks[1] = LB /\ toks[Len(toks)] = RB
    THEN LoadItems(SubSeq(toks, 2, Len(toks) - 1), <<>>)
    ELSE ParseError

\* line 159: existing_cids = {item['id'] for item in dataset}
ExistingCidsMutantEmpty(ds) == {}

ExistingCids(ds) == { ds[i].id : i \in 1..Len(ds) }

-----------------------------------------------------------------------------
(* save_image, lines 80-93 *)

\* line 86: os.path.exists(filepath), given the names in IMAGE_FOLDER
FileExistsMutantNever(filename, names) == FALSE

FileExists(filename, names) == filename \in names

\* line 81: filename = f"{cid}.jpg"
FirstName(cid) == cid \o ".jpg"

\* line 87: filename = f"{cid}_{counter}.jpg"
SuffixedName(cid, counter) == cid \o "_" \o ToString(counter) \o ".jpg"

\* lines 85-89: the first name f"{cid}_{counter}.jpg" that does not exist
RECURSIVE ProbeName(_, _, _)
ProbeName(cid, counter, names) ==
    LET filename == SuffixedName(cid, counter)
    IN  IF FileExists(filename, names)
        THEN ProbeName(cid, counter + 1, names)
        ELSE filename

\* lines 81-89: the name save_image settles on, given the existing names
SaveName(cid, names) ==
    LET filename == FirstName(cid)
    IN  IF FileExists(filename, names) THEN ProbeName(cid, 1, names) ELSE filename

-----------------------------------------------------------------------------
(* process_group, lines 96-149 *)

NoneResult == [tag |-> "None"]
Raised == [tag |-> "Raised"]
Rec(r) == [tag |-> "Rec", rec |-> r]

\* line 98: if not image_data
NotImageDataMutantNoneOnly(image_data) == image_data = None

NotImageDataMutantNever(image_data) == FALSE

NotImageData(image_data) == image_data = None \/ Len(image_data) = 0

Turn(who, value) == [from |-> who, value |-> value]

\* ", ".join(items): a str, or a TypeError when an item is None
JoinRaises(items) == \E i \in 1..Len(items) : items[i] = None

RECURSIVE Join(_)
Join(items) ==
    IF items = <<>> THEN ""
    ELSE IF Len(items) = 1 THEN items[1]
    ELSE items[1] \o ", " \o Join(Tail(items))

\* secondary_actions[:3]
FirstThreeMutantAll(items) == items

FirstThree(items) == SubSeq(items, 1, Min(3, Len(items)))

\* lines 115-144, when no exception is raised
Conversations(actions) ==
    IF actions = <<>> THEN <<>>
    ELSE LET main_action == actions[1]
             secondary_actions == Tail(actions)
         IN  <<Turn("human", "<image>\nWhat's the most certain action in this scene?"),
               Turn("gpt", main_action)>>
             \o IF secondary_actions = <<>> THEN <<>>
                ELSE <<Turn("human", "What other high-probability actions exist?"),
                       Turn("gpt", Join(FirstThree(secondary_actions))
                                       \o " (lower confidence)")>>

\* lines 107-149: what process_group yields once the image is saved
Assemble(cid, filename, actions) ==
    IF Len(actions) >= 2 /\ JoinRaises(FirstThree(Tail(actions)))
    THEN Raised
    ELSE Rec([id |-> cid, image |-> filename,
              conversations |-> Conversations(actions)])

-----------------------------------------------------------------------------
(* What the network can do during one call of the fetcher by a worker *)

\* k transient failures (a 503 or a connection error), then a last response
NetRun(k, t, last) ==
    [i \in 1..DefaultMaxRetries |-> IF i <= k THEN t ELSE last]

\* what one requests.get of a worker can do (line 53)
NetResponses(cid) ==
    {Http(503, Blob(cid)), RequestException, Http(200, Blob(cid)),
     Http(200, EmptyBytes), Http(404, Blob(cid)), OtherException}

NoJitter == [i \in 1..DefaultMaxRetries |-> 0]

\* line 97: image_data = fetch_ipfs_image_exponential_backoff(cid)
FetchDefault(resps) ==
    fetch_ipfs_image_exponential_backoff(
        resps, NoJitter, DefaultMaxRetries, DefaultBaseDelay, DefaultMaxDelay).result

-----------------------------------------------------------------------------
(* The state of a process and of its futures *)

Unsubmitted == [st |-> "unsubmitted"]
Pending == [st |-> "pending"]
\* the positions of a worker inside the fetcher, with attempt: inside
\* requests.get (line 53), inside time.sleep (lines 64, 73)
Requesting(attempt) == [st |-> "request", attempt |-> attempt]
Sleeping(attempt) == [st |-> "sleep", attempt |-> attempt]

\* the positions of a worker inside save_image, with its locals: about to
\* test the name (line 86), about to open (line 91), inside the with
\* block (line 92), save_image returned (line 102)
Fetched(d, filename, counter) ==
    [st |-> "fetched", image_data |-> d, filename |-> filename,
     counter |-> counter]
Opening(d, filename) == [st |-> "open", image_data |-> d, filename |-> filename]
Writing(d, filename) == [st |-> "write", image_data |-> d, filename |-> filename]
Saved(filename) == [st |-> "saved", filename |-> filename]
WorkerSts == {"request", "sleep", "fetched", "open", "write", "saved"}
Finished(o) == [st |-> "done", outcome |-> o]      \* future.done()
Drained(o) == [st |-> "drained", outcome |-> o]    \* yielded by as_completed

NoFutures == [c \in CIDs |-> Unsubmitted]

Submitted == { c \in CIDs : future_to_cid[c] # Unsubmitted }
Running == { c \in CIDs : future_to_cid[c].st \in WorkerSts }
Settled == { c \in CIDs : future_to_cid[c].st \in {"unsubmitted", "done", "drained"} }

\* the positions between executor creation and executor exit (lines 164-192)
PoolPcs == {"submit", "init_open", "init_write", "init_failed", "drain",
            "snap_open", "snap_write", "snap_replace"}
Stopped == {"done", "killed", "aborted"}

SaveLog(cid) == [msg |-> "Failed to save image", cid |-> cid]
ProcLog(cid) == [msg |-> "Failed processing", cid |-> cid]

\* a longer proper prefix of the text reaches the file (a buffer flush)
Flushed(file, text) ==
    { File(SubSeq(text, 1, k)) : k \in (Len(file.content) + 1)..(Len(text) - 1) }

\* a longer proper prefix of the payload reaches the image file
FlushedBytes(content, data) ==
    { SubSeq(data, 1, k) : k \in (Len(content) + 1)..(Len(data) - 1) }

memVars == <<df, dataset, existing_cids, future_to_cid, cur, log, loaded>>

FreshMemory ==
    /\ df = <<>>
    /\ dataset = <<>>
    /\ existing_cids = {}
    /\ future_to_cid = NoFutures
    /\ cur = None
    /\ log = {}
    /\ loaded = <<>>

FreshMemoryNext ==
    /\ df' = <<>>
    /\ dataset' = <<>>
    /\ existing_cids' = {}
    /\ future_to_cid' = NoFutures
    /\ cur' = None
    /\ log' = {}
    /\ loaded' = <<>>

MainInit ==
    /\ pc = "start"
    /\ FreshMemory
    /\ fileOut = Absent
    /\ fileTmp = Absent
    /\ images = << >>
    /\ runs = 1

-----------------------------------------------------------------------------
(* Main execution flow, lines 151-198 *)

\* lines 152-153: df = pd.read_sql(QUERY, engine)
ReadSql ==
    /\ pc = "start"
    /\ \E rows \in Sources : df' = rows
    /\ pc' = "load"
    /\ UNCHANGED <<dataset, existing_cids, future_to_cid, cur, log, loaded,
                   fileOut, fileTmp, images, runs, fetchVars, auxVars>>

\* the query fails: the exception ends the run before anything else
ReadSqlError ==
    /\ pc = "start"
    /\ pc' = "aborted"
    /\ UNCHANGED <<memVars, fileOut, fileTmp, images, runs, fetchVars, auxVars>>

\* lines 156-162
LoadExisting ==
    /\ pc = "load"
    /\ IF fileOut.exists
       THEN LET doc == Load(fileOut.content)
            IN  IF doc.ok
                THEN /\ dataset' = doc.value
                     /\ loaded' = doc.value
                     /\ existing_cids' = ExistingCids(doc.value)
                     /\ pc' = "submit"
                ELSE /\ pc' = "aborted"      \* JSONDecodeError, uncaught
                     /\ UNCHANGED <<dataset, loaded, existing_cids>>
       ELSE /\ dataset' = <<>>
            /\ loaded' = <<>>
            /\ existing_cids' = {}
            /\ pc' = "submit"
    /\ UNCHANGED <<df, future_to_cid, cur, log, fileOut, fileTmp, images, runs,
                   fetchVars, auxVars>>

\* line 168: if row.thumbnail_cid not in existing_cids
SubmitFilterMutantAll(cid, existing) == TRUE

SubmitFilter(cid, existing) == cid \notin existing

\* the rows the comprehension of lines 165-169 has yet to submit: rows
\* that pass the filter are submitted in the order of df, the others are
\* passed over
ToSubmit ==
    { i \in 1..Len(df) :
        /\ SubmitFilter(df[i].thumbnail_cid, existing_cids)
        /\ future_to_cid[df[i].thumbnail_cid] = Unsubmitted }

\* line 166: one executor.submit(process_group, row.thumbnail_cid, row.actions);
\* the pool may run the call at once, while the comprehension goes on
Submit ==
    /\ pc = "submit"
    /\ ToSubmit # {}
    /\ LET i == CHOOSE k \in ToSubmit : \A l \in ToSubmit : k <= l
       IN  future_to_cid' =
             [future_to_cid EXCEPT ![df[i].thumbnail_cid] = Pending]
    /\ UNCHANGED <<pc, df, dataset, existing_cids, cur, log, loaded, fileOut,
                   fileTmp, images, runs, fetchVars, auxVars>>

\* lines 165-171: the comprehension has gone through every row; line 171
\* tests existing_cids
SubmitEnd ==
    /\ pc = "submit"
    /\ ToSubmit = {}
    /\ pc' = IF existing_cids = {} THEN "init_open" ELSE "drain"
    /\ UNCHANGED <<memVars, fileOut, fileTmp, images, runs, fetchVars, auxVars>>

\* line 172: open(JSON_OUT, 'w') creates or truncates the file
InitOpen ==
    /\ pc = "init_open"
    /\ fileOut' = File(<<>>)
    /\ pc' = "init_write"
    /\ UNCHANGED <<memVars, fileTmp, images, runs, fetchVars, auxVars>>

\* line 173: part of the text of json.dump([], f) reaches the file
InitFlush ==
    /\ pc = "init_write"
    /\ \E f \in Flushed(fileOut, Dump(<<>>)) : fileOut' = f
    /\ UNCHANGED <<pc, memVars, fileTmp, images, runs, fetchVars, auxVars>>

\* lines 172-173: the with block ends, the file holds the whole text
InitClose ==
    /\ pc = "init_write"
    /\ fileOut' = File(Dump(<<>>))
    /\ pc' = "drain"
    /\ UNCHANGED <<memVars, fileTmp, images, runs, fetchVars, auxVars>>

\* lines 172-173 raise OSError: the exception leaves the executor block
InitError ==
    /\ pc \in {"init_open", "init_write"}
    /\ pc' = "init_failed"
    /\ UNCHANGED <<memVars, fileOut, fileTmp, images, runs, fetchVars, auxVars>>

\* line 164: ThreadPoolExecutor.__exit__ waits for the submitted work,
\* then the exception ends the run
ExecutorExitOnError ==
    /\ pc = "init_failed"
    /\ Settled = CIDs
    /\ pc' = "aborted"
    /\ UNCHANGED <<memVars, fileOut, fileTmp, images, runs, fetchVars, auxVars>>

\* lines 179-192: what the loop body does with the outcome of a future:
\* a truthy result is appended and snapshotted, None is passed over, an
\* exception raised by future.result() is caught and logged
HandleMutantPropagate(outcome) ==
    CASE outcome.tag = "Rec"  -> [append |-> TRUE, logged |-> FALSE, next |-> "snap_open"]
      [] outcome.tag = "None" -> [append |-> FALSE, logged |-> FALSE, next |-> "drain"]
      [] OTHER                -> [append |-> FALSE, logged |-> FALSE, next |-> "aborted"]

\* line 184 left out: the record is appended and the loop goes on
HandleMutantNoSnapshot(outcome) ==
    CASE outcome.tag = "Rec"  -> [append |-> TRUE, logged |-> FALSE, next |-> "drain"]
      [] outcome.tag = "None" -> [append |-> FALSE, logged |-> FALSE, next |-> "drain"]
      [] OTHER                -> [append |-> FALSE, logged |-> TRUE, next |-> "drain"]

Handle(outcome) ==
    CASE outcome.tag = "Rec"  -> [append |-> TRUE, logged |-> FALSE, next |-> "snap_open"]
      [] outcome.tag = "None" -> [append |-> FALSE, logged |-> FALSE, next |-> "drain"]
      [] OTHER                -> [append |-> FALSE, logged |-> TRUE, next |-> "drain"]

\* lines 177-182, 188-192: as_completed yields a finished future
DrainNext(c) ==
    /\ pc = "drain"
    /\ future_to_cid[c].st = "done"
    /\ LET outcome == future_to_cid[c].outcome
           h == Handle(outcome)
       IN  /\ cur' = c
           /\ future_to_cid' = [future_to_cid EXCEPT ![c] = Drained(outcome)]
           /\ dataset' = IF h.append THEN Append(dataset, outcome.rec)
                         ELSE dataset
           /\ log' = IF h.logged THEN log \cup {ProcLog(c)} ELSE log
           /\ pc' = h.next
    /\ UNCHANGED <<df, existing_cids, loaded, fileOut, fileTmp, images, runs,
                   fetchVars, auxVars>>

\* line 184: open(JSON_OUT + '.tmp', 'w')
SnapOpen ==
    /\ pc = "snap_open"
    /\ fileTmp' = File(<<>>)
    /\ pc' = "snap_write"
    /\ UNCHANGED <<memVars, fileOut, images, runs, fetchVars, auxVars>>

\* line 185: part of the text of json.dump(dataset, f) reaches the file
SnapFlush ==
    /\ pc = "snap_write"
    /\ \E f \in Flushed(fileTmp, Dump(dataset)) : fileTmp' = f
    /\ UNCHANGED <<pc, memVars, fileOut, images, runs, fetchVars, auxVars>>

\* lines 184-185: the with block ends
SnapClose ==
    /\ pc = "snap_write"
    /\ fileTmp' = File(Dump(dataset))
    /\ pc' = "snap_replace"
    /\ UNCHANGED <<memVars, fileOut, images, runs, fetchVars, auxVars>>

\* line 186: os.replace(JSON_OUT + '.tmp', JSON_OUT)
SnapReplace ==
    /\ pc = "snap_replace"
    /\ fileOut' = fileTmp
    /\ fileTmp' = Absent
    /\ pc' = "drain"
    /\ UNCHANGED <<memVars, images, runs, fetchVars, auxVars>>

\* lines 184-186 raise OSError; lines 190-192 catch and log it
SnapError ==
    /\ pc \in {"snap_open", "snap_write", "snap_replace"}
    /\ log' = log \cup {ProcLog(cur)}
    /\ pc' = "drain"
    /\ UNCHANGED <<df, dataset, existing_cids, future_to_cid, cur, loaded,
                   fileOut, fileTmp, images, runs, fetchVars, auxVars>>

\* line 177: as_completed has yielded every future of future_to_cid
ExhaustedMutantAtOnce == TRUE

Exhausted == \A c \in Submitted : future_to_cid[c].st = "drained"

\* line 177: as_completed is exhausted, the executor block ends
DrainEnd ==
    /\ pc = "drain"
    /\ Exhausted
    /\ pc' = "final_open"
    /\ UNCHANGED <<memVars, fileOut, fileTmp, images, runs, fetchVars, auxVars>>

\* line 195: open(JSON_OUT, 'w') creates or truncates the file
FinalOpen ==
    /\ pc = "final_open"
    /\ fileOut' = File(<<>>)
    /\ pc' = "final_write"
    /\ UNCHANGED <<memVars, fileTmp, images, runs, fetchVars, auxVars>>

\* line 196: part of the text of json.dump(dataset, f) reaches the file
FinalFlush ==
    /\ pc = "final_write"
    /\ \E f \in Flushed(fileOut, Dump(dataset)) : fileOut' = f
    /\ UNCHANGED <<pc, memVars, fileTmp, images, runs, fetchVars, auxVars>>

\* lines 195-198: the with block ends, the summary is logged
FinalClose ==
    /\ pc = "final_write"
    /\ fileOut' = File(Dump(dataset))
    /\ pc' = "done"
    /\ UNCHANGED <<memVars, fileTmp, images, runs, fetchVars, auxVars>>

\* lines 195-196 raise OSError: nothing catches it
FinalError ==
    /\ pc \in {"final_open", "final_write"}
    /\ pc' = "aborted"
    /\ UNCHANGED <<memVars, fileOut, fileTmp, images, runs, fetchVars, auxVars>>

-----------------------------------------------------------------------------
(* The workers: process_group(cid, actions) in a pool thread *)

\* lines 96-97, 47-53: a pool thread takes the call, enters the fetcher and
\* makes the first request
WorkerStart(c) ==
    /\ pc \in PoolPcs
    /\ future_to_cid[c].st = "pending"
    /\ Cardinality(Running) < THREADS
    /\ future_to_cid' = [future_to_cid EXCEPT ![c] = Requesting(1)]
    /\ UNCHANGED <<pc, df, dataset, existing_cids, cur, log, loaded, fileOut,
                   fileTmp, images, runs, fetchVars, auxVars>>

\* lines 53-76, 98-101, 81-85: requests.get returns or raises. On a retry
\* the worker goes to sleep; on a return without payload process_group
\* returns None; with a payload the worker enters save_image:
\* filename = f"{cid}.jpg", counter = 1
WorkerFetch(c) ==
    /\ pc \in PoolPcs
    /\ future_to_cid[c].st = "request"
    /\ \E r \in NetResponses(c) :
         LET attempt == future_to_cid[c].attempt
             cl == Classify(r, attempt, DefaultMaxRetries)
         IN  future_to_cid' =
               [future_to_cid EXCEPT ![c] =
                  IF cl.do = "retry" THEN Sleeping(attempt)
                  ELSE IF NotImageData(cl.value) THEN Finished(NoneResult)
                  ELSE Fetched(cl.value, FirstName(c), 1)]
    /\ UNCHANGED <<pc, df, dataset, existing_cids, cur, log, loaded, fileOut,
                   fileTmp, images, runs, fetchVars, auxVars>>

\* lines 64-65, 73-74, 48-53: time.sleep returns, the loop goes on with
\* the next attempt
WorkerWake(c) ==
    /\ pc \in PoolPcs
    /\ future_to_cid[c].st = "sleep"
    /\ future_to_cid' =
         [future_to_cid EXCEPT ![c] =
            IF @.attempt < DefaultMaxRetries
            THEN Requesting(@.attempt + 1)
            ELSE Finished(NoneResult)]
    /\ UNCHANGED <<pc, df, dataset, existing_cids, cur, log, loaded, fileOut,
                   fileTmp, images, runs, fetchVars, auxVars>>

\* lines 86-89: one test of while os.path.exists(filepath)
WorkerCheck(c) ==
    /\ pc \in PoolPcs
    /\ future_to_cid[c].st = "fetched"
    /\ future_to_cid' =
         [future_to_cid EXCEPT ![c] =
            IF FileExists(@.filename, DOMAIN images)
            THEN Fetched(@.image_data, SuffixedName(c, @.counter), @.counter + 1)
            ELSE Opening(@.image_data, @.filename)]
    /\ UNCHANGED <<pc, df, dataset, existing_cids, cur, log, loaded, fileOut,
                   fileTmp, images, runs, fetchVars, auxVars>>

\* line 91: open(filepath, "wb") creates the file, or truncates it
WorkerOpen(c) ==
    /\ pc \in PoolPcs
    /\ future_to_cid[c].st = "open"
    /\ images' = (future_to_cid[c].filename :> EmptyBytes) @@ images
    /\ future_to_cid' =
         [future_to_cid EXCEPT ![c] = Writing(@.image_data, @.filename)]
    /\ UNCHANGED <<pc, df, dataset, existing_cids, cur, log, loaded, fileOut,
                   fileTmp, runs, fetchVars, auxVars>>

\* line 92: part of the payload reaches the file
WorkerFlush(c) ==
    /\ pc \in PoolPcs
    /\ future_to_cid[c].st = "write"
    /\ \E content \in FlushedBytes(images[future_to_cid[c].filename],
                                   future_to_cid[c].image_data) :
         images' = (future_to_cid[c].filename :> content) @@ images
    /\ UNCHANGED <<pc, memVars, fileOut, fileTmp, runs, fetchVars, auxVars>>

\* lines 91-93: the with block ends, the file holds the payload,
\* save_image returns the name
WorkerWrite(c) ==
    /\ pc \in PoolPcs
    /\ future_to_cid[c].st = "write"
    /\ images' = (future_to_cid[c].filename :> future_to_cid[c].image_data)
                     @@ images
    /\ future_to_cid' = [future_to_cid EXCEPT ![c] = Saved(@.filename)]
    /\ UNCHANGED <<pc, df, dataset, existing_cids, cur, log, loaded, fileOut,
                   fileTmp, runs, fetchVars, auxVars>>

\* lines 107-149: the record is built and returned, or the join raises
WorkerReturn(c) ==
    /\ pc \in PoolPcs
    /\ future_to_cid[c].st = "saved"
    /\ future_to_cid' =
         [future_to_cid EXCEPT ![c] =
            Finished(Assemble(c, @.filename, ActionsIn(df, c)))]
    /\ UNCHANGED <<pc, df, dataset, existing_cids, cur, log, loaded, fileOut,
                   fileTmp, images, runs, fetchVars, auxVars>>

\* lines 101-105: save_image raises OSError, at open (no file is made) or
\* in the with block (the file keeps what had reached it); process_group
\* logs it and returns None
WorkerSaveError(c) ==
    /\ pc \in PoolPcs
    /\ future_to_cid[c].st \in {"open", "write"}
    /\ log' = log \cup {SaveLog(c)}
    /\ future_to_cid' = [future_to_cid EXCEPT ![c] = Finished(NoneResult)]
    /\ UNCHANGED <<pc, df, dataset, existing_cids, cur, loaded, fileOut,
                   fileTmp, images, runs, fetchVars, auxVars>>

-----------------------------------------------------------------------------
(* The environment: the process is killed; the job is started again *)

Kill ==
    /\ pc \notin Stopped
    /\ pc' = "killed"
    /\ FreshMemoryNext
    /\ UNCHANGED <<fileOut, fileTmp, images, runs, fetchVars, auxVars>>

Rerun ==
    /\ pc \in Stopped
    /\ runs < MaxRuns
    /\ runs' = runs + 1
    /\ pc' = "start"
    /\ FreshMemoryNext
    /\ UNCHANGED <<fileOut, fileTmp, images, fetchVars, auxVars>>

-----------------------------------------------------------------------------
(* Specifications *)

\* nothing is being called on its own
FetchIdle ==
    /\ f_in = [max_retries |-> 0]
    /\ f_out = NotCalled

SaveIdle ==
    /\ calls = << >>
    /\ sequential = TRUE

GroupIdle ==
    /\ p_in = [actions |-> <<>>]
    /\ p_out = NotCalled

AuxIdle == SaveIdle /\ GroupIdle

Init ==
    /\ MainInit
    /\ FetchIdle
    /\ AuxIdle

Next ==
    \/ ReadSql
    \/ ReadSqlError
    \/ LoadExisting
    \/ Submit
    \/ SubmitEnd
    \/ InitOpen
    \/ InitFlush
    \/ InitClose
    \/ InitError
    \/ ExecutorExitOnError
    \/ \E c \in CIDs : DrainNext(c)
    \/ SnapOpen
    \/ SnapFlush
    \/ SnapClose
    \/ SnapReplace
    \/ SnapError
    \/ DrainEnd
    \/ FinalOpen
    \/ FinalFlush
    \/ FinalClose
    \/ FinalError
    \/ \E c \in CIDs : WorkerStart(c)
    \/ \E c \in CIDs : WorkerFetch(c)
    \/ \E c \in CIDs : WorkerWake(c)
    \/ \E c \in CIDs : WorkerCheck(c)
    \/ \E c \in CIDs : WorkerOpen(c)
    \/ \E c \in CIDs : WorkerFlush(c)
    \/ \E c \in CIDs : WorkerWrite(c)
    \/ \E c \in CIDs : WorkerReturn(c)
    \/ \E c \in CIDs : WorkerSaveError(c)
    \/ Kill
    \/ Rerun

Spec == Init /\ [][Next]_vars

FetchInit ==
    /\ MainInit
    /\ \E m \in 1..MaxRetriesBound : f_in \in FetchInputs(m)
    /\ f_out = NotCalled
    /\ AuxIdle

FetchNext == FetchCall

FetchSpec == FetchInit /\ [][FetchNext]_vars

-----------------------------------------------------------------------------
(* Claims about the fetcher, checked under FetchSpec *)

\* a transient failure as the specification words it: 429, a 5xx status
\* or a network-level exception
SaidTransient(r) ==
    \/ r.kind = "RequestException"
    \/ r.kind = "http" /\ (r.sc = 429 \/ r.sc \in 500..599)

\* a permanent failure as the specification words it: 403, 404, any status
\* other than 200, 403, 404, 429 and 500-599, or an unexpected exception
SaidPermanent(r) ==
    \/ r.kind = "Exception"
    \/ r.kind = "http" /\ r.sc # 200 /\ r.sc # 429 /\ r.sc \notin 500..599

AllTransient(in) == \A i \in 1..in.max_retries : SaidTransient(in.resps[i])

\* resps is k transient failures followed by an HTTP 200
TransientThenOk(in, k) ==
    /\ k < in.max_retries
    /\ \A i \in 1..k : SaidTransient(in.resps[i])
    /\ in.resps[k + 1].kind = "http"
    /\ in.resps[k + 1].sc = 200

\* C7: when every attempt gets a transient failure the fetcher makes
\* exactly max_retries attempts, sleeps max_retries - 1 times (not after
\* the last attempt) and returns None.
C7_RetryBudget ==
    (f_out.called /\ AllTransient(f_in)) =>
        /\ f_out.attempts = f_in.max_retries
        /\ Len(f_out.sleeps) = f_in.max_retries - 1
        /\ f_out.result = None

C7_Witness ==
    /\ f_out.called
    /\ AllTransient(f_in)
    /\ f_in.max_retries = MaxRetriesBound
    /\ f_out.attempts = MaxRetriesBound
    /\ Len(f_out.sleeps) = MaxRetriesBound - 1

\* C8: k transient failures followed by a 200, k < max_retries, give k + 1
\* attempts, the body of the 200 response as result, and k sleeps, the i-th
\* lasting min(max_delay, base_delay * 2^(i-1)) plus a jitter in [0, 1],
\* so at most max_delay + 1; with k = 0 there is no sleep.
C8_BackoffSequence ==
    f_out.called =>
        \A k \in 0..(f_in.max_retries - 1) :
            TransientThenOk(f_in, k) =>
                /\ f_out.attempts = k + 1
                /\ f_out.result = f_in.resps[k + 1].content
                /\ Len(f_out.sleeps) = k
                /\ \A i \in 1..k :
                     LET d == IF f_in.base_delay * (2 ^ (i - 1)) < f_in.max_delay
                              THEN f_in.base_delay * (2 ^ (i - 1))
                              ELSE f_in.max_delay
                     IN  /\ f_out.sleeps[i] - d \in 0..1
                         /\ f_out.sleeps[i] = d + f_in.jitters[i]
                         /\ f_out.sleeps[i] <= f_in.max_delay + 1

\* two failures then a 200: the first sleep below the cap, the second capped
C8_Witness ==
    /\ f_out.called
    /\ TransientThenOk(f_in, 2)
    /\ f_in.base_delay = 2
    /\ f_in.max_delay = 3
    /\ f_out.attempts = 3
    /\ f_out.result = Blob(FetchCid)
    /\ f_out.sleeps = <<2 + f_in.jitters[1], 3 + f_in.jitters[2]>>
    /\ f_in.jitters[2] = 1

\* C9: a 403 or 404, any status other than 200, 403, 404, 429 and 500-599,
\* or an unexpected exception, at whichever attempt j it occurs, ends the
\* fetch at once: j attempts, j - 1 sleeps, result None.
C9_PermanentEndsFetch ==
    f_out.called =>
        \A j \in 1..f_in.max_retries :
            ( /\ \A i \in 1..(j - 1) : SaidTransient(f_in.resps[i])
              /\ SaidPermanent(f_in.resps[j]) ) =>
                /\ f_out.attempts = j
                /\ Len(f_out.sleeps) = j - 1
                /\ f_out.result = None

-----------------------------------------------------------------------------
(* Claims about a run and its reruns, checked under Spec *)

IdsOf(ds) == { ds[i].id : i \in 1..Len(ds) }
NoDuplicateIds(ds) == \A i, j \in 1..Len(ds) : ds[i].id = ds[j].id => i = j

\* the document a reader of JSON_OUT gets
OnDisk == IF fileOut.exists THEN Load(fileOut.content) ELSE ParseError

\* the cids whose process_group returned a record in this run
Succeeded ==
    { c \in CIDs : /\ future_to_cid[c].st \in {"done", "drained"}
                   /\ future_to_cid[c].outcome.tag = "Rec" }

\* the successful assemblies the draining loop has finished handling
Handled ==
    { c \in Succeeded :
        /\ future_to_cid[c].st = "drained"
        /\ ~(pc \in {"snap_open", "snap_write", "snap_replace"} /\ cur = c) }

\* the records this run has appended
AppendedNow == SubSeq(dataset, Len(loaded) + 1, Len(dataset))

\* the names save_image can give to the images of a cid
NamesOf(cid) ==
    {cid \o ".jpg"} \cup { cid \o "_" \o ToString(n) \o ".jpg" : n \in 1..(MaxRuns + 1) }

\* C1: at every point of a run the file at JSON_OUT, when there is one,
\* is a complete, valid JSON array (never empty, truncated or half-written).
C1_AlwaysValidJson == fileOut.exists => Load(fileOut.content).ok

\* C2: whenever a run comes to load the existing document (a rerun after a
\* kill included) the load succeeds, so the rerun can go on to Done.
C2_RerunLoadsDocument ==
    (pc = "load" /\ fileOut.exists) => Load(fileOut.content).ok

\* C3: when N successful assemblies of the run have been handled by the
\* draining loop, the document on disk is valid JSON holding the loaded
\* records and exactly N records of this run.
C3_ExactlyNOnDisk ==
    (pc \in PoolPcs \cup {"final_open", "final_write"} /\ fileOut.exists) =>
        /\ OnDisk.ok
        /\ Len(OnDisk.value) = Len(loaded) + Cardinality(Handled)

\* C4: a cid already in the loaded document is not submitted, fetched or
\* saved again, and at the end the document holds the loaded records
\* unchanged, followed by the record of every new cid that was assembled.
C4_Resumability ==
    [][ /\ \A c \in existing_cids' : future_to_cid'[c] = Unsubmitted
        /\ \A c \in existing_cids : \A fn \in NamesOf(c) :
             /\ (fn \in DOMAIN images') = (fn \in DOMAIN images)
             /\ fn \in DOMAIN images => images'[fn] = images[fn]
        /\ pc' = "done" =>
             /\ OnDisk'.ok
             /\ SubSeq(OnDisk'.value, 1, Len(loaded')) = loaded'
             /\ IdsOf(OnDisk'.value) = existing_cids' \cup Succeeded'
             /\ \A c \in Succeeded' :
                  \E i \in 1..Len(OnDisk'.value) :
                     OnDisk'.value[i] = future_to_cid'[c].outcome.rec
      ]_vars

\* X was in the document, the source yields X and Y, Y alone was fetched
\* and the final document holds both
C4_Witness ==
    /\ pc = "done"
    /\ existing_cids = {"a"}
    /\ RowCids(df) = {"a", "b"}
    /\ future_to_cid["a"] = Unsubmitted
    /\ Succeeded = {"b"}
    /\ OnDisk.ok
    /\ Len(OnDisk.value) = 2
    /\ OnDisk.value[1] = loaded[1]
    /\ OnDisk.value[2].id = "b"

\* C5: over runs, kills and reruns no two records of the dataset, in
\* memory or on disk, have the same id, and no cid of the loaded document
\* is given to a worker again.
C5_NoDuplicateIds ==
    /\ NoDuplicateIds(dataset)
    /\ OnDisk.ok => NoDuplicateIds(OnDisk.value)
    /\ (fileTmp.exists /\ Load(fileTmp.content).ok) =>
           NoDuplicateIds(Load(fileTmp.content).value)
    /\ Submitted \cap IdsOf(loaded) = {}

\* a rerun after a kill that had persisted one record: the source yields
\* that cid again and the run ends with two records
C5_Witness ==
    /\ runs = 2
    /\ pc = "done"
    /\ Len(loaded) = 1
    /\ IdsOf(loaded) \subseteq RowCids(df)
    /\ Len(OnDisk.value) = 2
    /\ Cardinality(DOMAIN images) = 2

\* C6: whatever subset of the submitted records fails (fetch failure or
\* an exception in the worker), the draining loop never ends the run, and
\* the final dataset holds, after the loaded records, exactly one record
\* for each submitted record that succeeded and none for the others.
C6_FailureIsolation ==
    [][ /\ pc = "drain" => pc' \in {"drain", "snap_open", "final_open", "killed"}
        /\ pc' \in {"final_open", "final_write", "done"} =>
             /\ IdsOf(AppendedNow') = Succeeded'
             /\ Len(AppendedNow') = Cardinality(Succeeded')
             /\ \A c \in Submitted' : future_to_cid'[c].st = "drained"
        /\ pc' = "done" => (OnDisk'.ok /\ OnDisk'.value = dataset')
      ]_vars

\* two records submitted, the worker of one raised, the other succeeded:
\* one record in the final dataset
C6_Witness ==
    /\ pc = "done"
    /\ Submitted = {"a", "b"}
    /\ future_to_cid["b"].outcome = Raised
    /\ Succeeded = {"a"}
    /\ Len(dataset) = 1
    /\ dataset[1].id = "a"
    /\ ProcLog("b") \in log

\* C10: a record whose image save failed, or whose snapshot write failed,
\* is logged and is absent from the in-memory dataset (and so from every
\* later document).
C10_FailedRecordSkipped ==
    \A c \in CIDs :
        (SaveLog(c) \in log \/ ProcLog(c) \in log) => c \notin IdsOf(AppendedNow)

-----------------------------------------------------------------------------
(* save_image on its own, statement by statement: calls made by several   *)
(* threads on one IMAGE_FOLDER, at once or one after the other            *)

\* number of threads calling save_image
SaveThreads == 2

Threads == 1..SaveThreads

\* identifiers given to the calls
SaveCids == {"a", "a_1"}

\* each call brings its own payload
Payload(t) == "p" \o ToString(t)

\* what files of earlier runs hold
OldBlob == "old"

\* the folder as earlier runs of cid "a" left it: n files a.jpg, a_1.jpg, ...
PriorFolder(n) ==
    [fn \in {FirstName("a")} \cup {SuffixedName("a", i) : i \in 1..(n - 1)}
        |-> OldBlob]

PriorFolders == {<< >>} \cup {PriorFolder(n) : n \in 1..SaveThreads}

\* a call of save_image(cid, image_data): its position and its locals
Call(st, cid, image_data, filename, counter) ==
    [st |-> st, cid |-> cid, image_data |-> image_data,
     filename |-> filename, counter |-> counter]

Waiting(cid, image_data) == Call("waiting", cid, image_data, None, 0)

InCall(t) == calls[t].st \in {"check", "open", "write"}

\* lines 80-85: the call begins; filename = f"{cid}.jpg", counter = 1
SaveEnter(t) ==
    /\ calls[t].st = "waiting"
    /\ sequential => \A u \in Threads \ {t} : ~InCall(u)
    /\ calls' = [calls EXCEPT ![t] =
                   Call("check", @.cid, @.image_data, FirstName(@.cid), 1)]
    /\ UNCHANGED <<mainVars, fetchVars, sequential, p_in, p_out>>

\* lines 86-89: one test of the while loop
SaveCheck(t) ==
    /\ calls[t].st = "check"
    /\ calls' = [calls EXCEPT ![t] =
                   IF FileExists(@.filename, DOMAIN images)
                   THEN Call("check", @.cid, @.image_data,
                             SuffixedName(@.cid, @.counter), @.counter + 1)
                   ELSE Call("open", @.cid, @.image_data, @.filename, @.counter)]
    /\ UNCHANGED <<mainVars, fetchVars, sequential, p_in, p_out>>

\* line 91: open(filepath, "wb") creates the file, or truncates it
SaveOpen(t) ==
    /\ calls[t].st = "open"
    /\ images' = (calls[t].filename :> EmptyBytes) @@ images
    /\ calls' = [calls EXCEPT ![t].st = "write"]
    /\ UNCHANGED <<pc, memVars, fileOut, fileTmp, runs, fetchVars, sequential,
                   p_in, p_out>>

\* lines 92-93: the payload is written, the file closed, the name returned
SaveWrite(t) ==
    /\ calls[t].st = "write"
    /\ images' = (calls[t].filename :> calls[t].image_data) @@ images
    /\ calls' = [calls EXCEPT ![t].st = "returned"]
    /\ UNCHANGED <<pc, memVars, fileOut, fileTmp, runs, fetchVars, sequential,
                   p_in, p_out>>

SaveInit ==
    /\ pc = "start"
    /\ FreshMemory
    /\ fileOut = Absent
    /\ fileTmp = Absent
    /\ runs = 1
    /\ images \in PriorFolders
    /\ \E cids \in [Threads -> SaveCids] :
         calls = [t \in Threads |-> Waiting(cids[t], Payload(t))]
    /\ sequential \in BOOLEAN
    /\ FetchIdle
    /\ GroupIdle

SaveNext ==
    \/ \E t \in Threads : SaveEnter(t)
    \/ \E t \in Threads : SaveCheck(t)
    \/ \E t \in Threads : SaveOpen(t)
    \/ \E t \in Threads : SaveWrite(t)

SaveSpec == SaveInit /\ [][SaveNext]_vars

-----------------------------------------------------------------------------
(* Claims about save_image, checked under SaveSpec *)

\* the n-th name of a cid: c.jpg, then c_1.jpg, c_2.jpg, ...
NthName(cid, n) ==
    IF n = 0 THEN cid \o ".jpg" ELSE cid \o "_" \o ToString(n) \o ".jpg"

\* filename is the first name of the cid that is not among names
FirstFree(cid, filename, names) ==
    \E n \in 0..Cardinality(names) :
        /\ \A i \in 0..(n - 1) : NthName(cid, i) \in names
        /\ NthName(cid, n) \notin names
        /\ filename = NthName(cid, n)

HasPath(t) == calls[t].st \in {"write", "returned"}

\* C11: whatever the interleaving of save_image calls in different
\* threads, each call writes to a path of its own: no two calls open the
\* same path, and the file a call has returned holds that call's payload.
C11_DistinctPaths ==
    /\ \A t, u \in Threads :
         (t # u /\ HasPath(t) /\ HasPath(u)) =>
             calls[t].filename # calls[u].filename
    /\ \A t \in Threads :
         (calls[t].st = "returned" /\ \A u \in Threads \ {t} : ~InCall(u)) =>
             images[calls[t].filename] = calls[t].image_data

\* C12: a call made while c.jpg, c_1.jpg, ..., c_(n-1).jpg exist and c_n.jpg
\* does not, with no other call in progress, writes its payload to c_n.jpg,
\* returns that name and leaves every existing file as it was.
C12_SequentialCollision ==
    [][ sequential =>
          \A t \in Threads :
            /\ (calls[t].st = "open" /\ calls'[t].st = "write") =>
                 /\ FirstFree(calls[t].cid, calls[t].filename, DOMAIN images)
                 /\ DOMAIN images' = DOMAIN images \cup {calls[t].filename}
                 /\ \A g \in DOMAIN images : images'[g] = images[g]
            /\ (calls[t].st = "write" /\ calls'[t].st = "returned") =>
                 /\ calls'[t].filename = calls[t].filename
                 /\ DOMAIN images' = DOMAIN images
                 /\ images'[calls[t].filename] = calls[t].image_data
                 /\ \A g \in DOMAIN images \ {calls[t].filename} :
                      images'[g] = images[g]
      ]_vars

\* two successive saves of different payloads for one identifier: two
\* files, the second suffixed _1
C12_Witness ==
    /\ sequential
    /\ calls[1].st = "returned" /\ calls[2].st = "returned"
    /\ calls[1].cid = "a" /\ calls[2].cid = "a"
    /\ calls[1].image_data # calls[2].image_data
    /\ calls[1].filename = "a.jpg"
    /\ calls[2].filename = "a_1.jpg"
    /\ images["a.jpg"] = calls[1].image_data
    /\ images["a_1.jpg"] = calls[2].image_data

-----------------------------------------------------------------------------
(* Claims about dispatch, draining and writing, checked under Spec *)

\* the step stays inside one run of the process
SameRun == pc' \notin {"killed", "start"}

\* the futures as_completed yields in this step
DrainedNow ==
    { c \in CIDs : /\ future_to_cid[c].st # "drained"
                   /\ future_to_cid'[c].st = "drained" }

\* r is the record of cid c: built from the labels of c's row and naming
\* an image file that holds what the fetch of c returned
RecordOf(r, c, rows, folder) ==
    /\ r.id = c
    /\ r.image \in DOMAIN folder
    /\ folder[r.image] = Blob(c)
    /\ \E i \in 1..Len(rows) :
         /\ rows[i].thumbnail_cid = c
         /\ r.conversations = Conversations(rows[i].actions)

\* C13: every row whose cid is not in the loaded document is submitted
\* once (and no other), one row at a time, and is never submitted again; a
\* submitted future is drained once and never again,
\* the loop ends only when all are drained, and whatever the order in
\* which the workers finish, the record appended when the future of cid c
\* is drained has id c, the labels of c's row and the image fetched for c.
C13_DispatchAttribution ==
    [][ SameRun =>
          /\ \A c \in CIDs :
                future_to_cid'[c] # future_to_cid[c] =>
                    /\ future_to_cid'[c] # Unsubmitted
                    /\ future_to_cid'[c] = Pending =>
                          /\ future_to_cid[c] = Unsubmitted
                          /\ pc = "submit"
                          /\ \E i \in 1..Len(df) : df[i].thumbnail_cid = c
                          /\ c \notin IdsOf(loaded)
          /\ Cardinality(Submitted' \ Submitted) <= 1
          /\ (pc = "submit" /\ pc' # "submit") =>
                Submitted' =
                     { c \in CIDs :
                         /\ \E i \in 1..Len(df) : df[i].thumbnail_cid = c
                         /\ c \notin IdsOf(loaded) }
          /\ pc # "submit" => Submitted' = Submitted
          /\ \A c \in CIDs :
                future_to_cid[c].st = "drained" =>
                    future_to_cid'[c] = future_to_cid[c]
          /\ Cardinality(DrainedNow) <= 1
          /\ \A c \in DrainedNow :
                /\ future_to_cid[c].st = "done"
                /\ cur' = c
                /\ \/ dataset' = dataset
                   \/ /\ Len(dataset') = Len(dataset) + 1
                      /\ SubSeq(dataset', 1, Len(dataset)) = dataset
                      /\ RecordOf(dataset'[Len(dataset')], c, df, images)
          /\ dataset' # dataset => (pc = "load" \/ DrainedNow # {})
          /\ pc' = "final_open" =>
                \A c \in Submitted : future_to_cid[c].st = "drained"
      ]_vars

\* both rows submitted, b finished and drained first, a second: the
\* dataset holds b's record, then a's, each with its own labels and image
C13_Witness ==
    /\ pc = "done"
    /\ Len(df) = 2
    /\ Submitted = {"a", "b"}
    /\ Len(dataset) = 2
    /\ dataset[1].id = "b"
    /\ dataset[2].id = "a"
    /\ RecordOf(dataset[1], "b", df, images)
    /\ RecordOf(dataset[2], "a", df, images)
    /\ dataset[1].conversations # dataset[2].conversations

\* b extends a by zero or more records
Extends(a, b) ==
    /\ Len(b) >= Len(a)
    /\ SubSeq(b, 1, Len(a)) = a

\* C14: the document at the output path is append-only: whenever it holds
\* a list of records, the next content of the path holds that list
\* followed by zero or more records, within a run and across reruns.
C14_AppendOnly ==
    [][ OnDisk.ok => (OnDisk'.ok /\ Extends(OnDisk.value, OnDisk'.value)) ]_vars

-----------------------------------------------------------------------------
(* An uninterrupted run: nobody kills the process, the query and the      *)
(* writes of the coordinator to JSON_OUT do not fail, and every thread    *)
(* that can take a step takes one                                         *)

\* the main thread, lines 151-198
Coordinator ==
    \/ ReadSql
    \/ LoadExisting
    \/ Submit
    \/ SubmitEnd
    \/ InitOpen
    \/ InitFlush
    \/ InitClose
    \/ \E c \in CIDs : DrainNext(c)
    \/ SnapOpen
    \/ SnapFlush
    \/ SnapClose
    \/ SnapReplace
    \/ SnapError
    \/ DrainEnd
    \/ FinalOpen
    \/ FinalFlush
    \/ FinalClose

\* the pool thread running process_group(c, actions)
Worker(c) ==
    \/ WorkerStart(c)
    \/ WorkerFetch(c)
    \/ WorkerWake(c)
    \/ WorkerCheck(c)
    \/ WorkerOpen(c)
    \/ WorkerFlush(c)
    \/ WorkerWrite(c)
    \/ WorkerReturn(c)
    \/ WorkerSaveError(c)

LiveNext ==
    \/ Coordinator
    \/ \E c \in CIDs : Worker(c)
    \/ Rerun

\* the operating system keeps scheduling the main thread and the pool
\* threads; every network attempt returns or raises (timeout=10, line 54)
LiveSpec ==
    /\ Init
    /\ [][LiveNext]_vars
    /\ WF_vars(Coordinator)
    /\ \A c \in CIDs : WF_vars(Worker(c))

-----------------------------------------------------------------------------
(* Claims about the course of a run, checked under LiveSpec *)

\* the phases of the run state machine
Phase(p) ==
    CASE p = "start" -> "Init"
      [] p = "load" -> "LoadExisting"
      [] p \in {"submit", "init_open", "init_write"} -> "Dispatching"
      [] p = "drain" -> "PerRecord"
      [] p \in {"snap_open", "snap_write", "snap_replace"} -> "PersistSnapshot"
      [] p = "final_open" -> "Drained"
      [] p = "final_write" -> "FinalPersist"
      [] p = "done" -> "Done"
      [] OTHER -> "Interrupted"

\* the arrows of the state machine; Done to Init is the start of a rerun
PhaseArrows ==
    { <<"Init", "LoadExisting">>, <<"LoadExisting", "Dispatching">>,
      <<"Dispatching", "PerRecord">>, <<"PerRecord", "PersistSnapshot">>,
      <<"PersistSnapshot", "PerRecord">>, <<"PerRecord", "Drained">>,
      <<"Drained", "FinalPersist">>, <<"FinalPersist", "Done">>,
      <<"Done", "Init">> }

\* C15: an uninterrupted run goes through its phases in the order Init,
\* LoadExisting, Dispatching, (PerRecord, PersistSnapshot)*, Drained,
\* FinalPersist, Done; a snapshot is entered only with a record appended;
\* the final write begins only when every submitted future has completed
\* and been drained; every fetch ends within max_retries attempts; and the
\* run reaches Done with every submitted future completed and drained.
C15_RunStateMachine ==
    /\ [][ /\ Phase(pc') # "Interrupted"
           /\ Phase(pc') # Phase(pc) => <<Phase(pc), Phase(pc')>> \in PhaseArrows
           /\ (Phase(pc) = "PerRecord" /\ Phase(pc') = "PersistSnapshot") =>
                 Len(dataset') = Len(dataset) + 1
           /\ Phase(pc') \in {"Drained", "FinalPersist", "Done"} =>
                 \A c \in CIDs :
                    future_to_cid'[c].st \in {"unsubmitted", "drained"}
           /\ \A c \in CIDs :
                 /\ future_to_cid'[c].st = "request" =>
                       future_to_cid'[c].attempt \in 1..DefaultMaxRetries
                 /\ future_to_cid'[c].st = "sleep" =>
                       future_to_cid'[c].attempt \in 1..(DefaultMaxRetries - 1)
                 /\ (future_to_cid[c].st = "sleep"
                       /\ future_to_cid'[c] # future_to_cid[c]) =>
                       future_to_cid'[c] =
                           Requesting(future_to_cid[c].attempt + 1)
         ]_vars
    /\ (pc = "start") ~>
          (pc = "done" /\ \A c \in CIDs :
                             future_to_cid[c].st \in {"unsubmitted", "drained"})

\* a run that went through two snapshots is done, both futures drained
C15_Witness ==
    /\ pc = "done"
    /\ Submitted = {"a", "b"}
    /\ \A c \in Submitted : future_to_cid[c].st = "drained"
    /\ Len(dataset) = 2
    /\ OnDisk.ok
    /\ OnDisk.value = dataset

-----------------------------------------------------------------------------
(* Claims about who writes the dataset and its files, checked under Spec *)

\* the positions of the completion-draining loop, lines 177-192
LoopPcs == {"drain", "snap_open", "snap_write", "snap_replace"}

\* the positions of the initial and of the final write, lines 172-173, 195-196
WritePcs == {"init_open", "init_write", "final_open", "final_write"}

\* a pool thread takes the step: a future that was pending or running
\* moves, or an image file changes
WorkerStep ==
    \/ \E c \in CIDs :
        /\ future_to_cid[c].st \in {"pending", "request", "sleep", "fetched",
                                    "open", "write", "saved"}
        /\ future_to_cid'[c] # future_to_cid[c]
    \/ images' # images

\* the step appends to the dataset, or writes JSON_OUT or JSON_OUT.tmp
Mutates ==
    \/ (pc # "load" /\ dataset' # dataset)
    \/ fileOut' # fileOut
    \/ fileTmp' # fileTmp

\* C16 as stated: the dataset and the two files are mutated only by the
\* completion-draining loop, never by a worker thread.
C16_OnlyDrainingLoop ==
    [][ (SameRun /\ Mutates) => (pc \in LoopPcs /\ ~WorkerStep) ]_vars

\* C16 as amended: the dataset and the two files are mutated only by the
\* main thread, in the draining loop and in the initial and final writes;
\* a worker step never changes them; in the loop an append is followed by
\* its snapshot before the next append, the .tmp file is written only
\* during a snapshot and JSON_OUT only by the replace that ends it.
C16_SingleWriter ==
    [][ SameRun =>
          /\ WorkerStep => UNCHANGED <<dataset, fileOut, fileTmp, pc, cur>>
          /\ Mutates => (pc \in LoopPcs \cup WritePcs /\ ~WorkerStep)
          /\ (pc # "load" /\ dataset' # dataset) =>
                /\ pc = "drain"
                /\ pc' = "snap_open"
                /\ Len(dataset') = Len(dataset) + 1
                /\ UNCHANGED <<fileOut, fileTmp>>
          /\ fileTmp' # fileTmp =>
                pc \in {"snap_open", "snap_write", "snap_replace"}
          /\ (pc \in LoopPcs /\ fileOut' # fileOut) =>
                (pc = "snap_replace" /\ fileOut' = fileTmp)
      ]_vars

\* the main thread is writing the snapshot of a's record while the worker
\* of b is writing its image file
C16_Witness ==
    /\ pc = "snap_write"
    /\ cur = "a"
    /\ Len(dataset) = 1
    /\ fileTmp.exists
    /\ Len(fileTmp.content) > 0
    /\ future_to_cid["b"].st = "write"
    /\ Len(images[future_to_cid["b"].filename]) > 0

-----------------------------------------------------------------------------
(* process_group on its own: one call, on drawn arguments, network        *)
(* behaviour, image folder and save_image outcome                         *)

\* the longest label list given to a call
MaxLabels == 5

GroupCid == "a"

Labels == {"kick", "pass", "run"}

\* the lists of n labels; a None among them also occurs
LabelLists(n) ==
    [1..n -> Labels]
        \cup { [i \in 1..n |-> IF i = k THEN None ELSE "kick"] : k \in 1..n }

\* what the network does during the call
GroupNets ==
    { NetRun(k, Http(503, Blob(GroupCid)), last) :
        k \in {0, 1},
        last \in {Http(200, Blob(GroupCid)), Http(200, EmptyBytes),
                  Http(404, Blob(GroupCid)), OtherException} }

\* save_image runs through, or raises OSError at open, or in the with
\* block after some of the payload, less than all of it, reached the file
SaveFault(at, written) == [at |-> at, written |-> written]

SaveFaults ==
    {SaveFault("none", 0), SaveFault("open", 0)}
        \cup { SaveFault("write", k) : k \in 0..(Len(Blob(GroupCid)) - 1) }

GroupFolders == {<< >>, PriorFolder(1)}

GroupInputs(n) ==
    [ cid : {GroupCid},
      actions : LabelLists(n),
      resps : GroupNets,
      fault : SaveFaults ]

\* lines 96-149: the fetch result, the outcome of the call (a record, None
\* or an exception), the folder it leaves and whether line 104 logged
process_group(cid, actions, resps, folder, fault) ==
    LET image_data == FetchDefault(resps)
        filename == SaveName(cid, DOMAIN folder)
    IN  IF NotImageData(image_data)
        THEN [fetched |-> image_data, outcome |-> NoneResult,
              images |-> folder, logged |-> FALSE]
        ELSE IF fault.at = "open"
        THEN [fetched |-> image_data, outcome |-> NoneResult,
              images |-> folder, logged |-> TRUE]
        ELSE IF fault.at = "write"
        THEN [fetched |-> image_data, outcome |-> NoneResult,
              images |-> (filename :> SubSeq(image_data, 1, fault.written))
                             @@ folder,
              logged |-> TRUE]
        ELSE [fetched |-> image_data,
              outcome |-> Assemble(cid, filename, actions),
              images |-> (filename :> image_data) @@ folder,
              logged |-> FALSE]

GroupCall ==
    /\ p_out = NotCalled
    /\ LET r == process_group(p_in.cid, p_in.actions, p_in.resps, images,
                              p_in.fault)
       IN  /\ p_out' = [called |-> TRUE, fetched |-> r.fetched,
                        outcome |-> r.outcome, before |-> images]
           /\ images' = r.images
           /\ log' = IF r.logged THEN log \cup {SaveLog(p_in.cid)} ELSE log
    /\ UNCHANGED <<pc, df, dataset, existing_cids, future_to_cid, cur, loaded,
                   fileOut, fileTmp, runs, fetchVars, calls, sequential, p_in>>

GroupInit ==
    /\ pc = "start"
    /\ FreshMemory
    /\ fileOut = Absent
    /\ fileTmp = Absent
    /\ runs = 1
    /\ images \in GroupFolders
    /\ FetchIdle
    /\ SaveIdle
    /\ \E n \in 0..MaxLabels : p_in \in GroupInputs(n)
    /\ p_out = NotCalled

GroupNext == GroupCall

GroupSpec == GroupInit /\ [][GroupNext]_vars

-----------------------------------------------------------------------------
(* Claims about process_group, checked under GroupSpec *)

\* the call returned a record
Produced == p_out.called /\ p_out.outcome.tag = "Rec"

\* every item of the list is a label
AllLabels(L) == \A i \in 1..Len(L) : L[i] # None

Question1 == "<image>\nWhat's the most certain action in this scene?"
Question2 == "What other high-probability actions exist?"
LowerConfidence == " (lower confidence)"

\* C17: for a label list L of length n, the record's turns alternate
\* human, gpt; the first answer is L[0]; n = 1 gives 2 turns; n >= 2 gives
\* 4 turns, the second answer listing L[1..min(n-1, 3)] in order and
\* nothing else; an empty list gives no turn.
C17_ConversationalShape ==
    (Produced /\ AllLabels(p_in.actions)) =>
        LET L == p_in.actions
            n == Len(L)
            conv == p_out.outcome.rec.conversations
        IN  /\ n = 0 => conv = <<>>
            /\ n = 1 => Len(conv) = 2
            /\ n >= 2 => Len(conv) = 4
            /\ \A i \in 1..Len(conv) :
                 conv[i].from = (IF i % 2 = 1 THEN "human" ELSE "gpt")
            /\ n >= 1 => (conv[1].value = Question1 /\ conv[2].value = L[1])
            /\ n >= 2 => conv[3].value = Question2
            /\ n = 2 => conv[4].value = L[2] \o LowerConfidence
            /\ n = 3 => conv[4].value = L[2] \o ", " \o L[3] \o LowerConfidence
            /\ n >= 4 => conv[4].value =
                   L[2] \o ", " \o L[3] \o ", " \o L[4] \o LowerConfidence

\* five labels: the fifth is left out of the second answer
C17_Witness ==
    /\ Produced
    /\ p_in.actions = <<"kick", "pass", "run", "pass", "kick">>
    /\ Len(p_out.outcome.rec.conversations) = 4
    /\ p_out.outcome.rec.conversations[2].value = "kick"
    /\ p_out.outcome.rec.conversations[4].value =
          "pass, run, pass (lower confidence)"

\* the fetcher returned a non-empty byte string
NonEmpty(d) == d # None /\ Len(d) > 0

\* the call added a file to the folder
SavedFile == DOMAIN images # DOMAIN p_out.before

\* the response that decided the fetch: the first one that is not a 503
Deciding(resps, r) ==
    \E i \in 1..Len(resps) :
        /\ resps[i] = r
        /\ \A j \in 1..(i - 1) : resps[j].kind = "http" /\ resps[j].sc = 503

\* C19 as stated: process_group produces a record, and saves an image
\* file, if and only if the fetcher returned a non-empty byte string.
C19_RecordIffNonEmpty ==
    p_out.called =>
        /\ Produced <=> NonEmpty(p_out.fetched)
        /\ SavedFile <=> NonEmpty(p_out.fetched)

\* C19 as amended: a record is produced only if the fetcher returned a
\* non-empty byte string, and then the record's image file is new and
\* holds that payload; a non-empty payload gives a saved file whenever
\* save_image does not raise, and a record whenever moreover the labels can
\* be joined; None or an empty payload, an HTTP 200 with an empty body
\* included, gives no record, no file and no log entry, as a failed fetch.
C19_EmptyPayloadIsFailure ==
    p_out.called =>
        /\ Produced =>
              /\ NonEmpty(p_out.fetched)
              /\ p_out.outcome.rec.image \notin DOMAIN p_out.before
              /\ p_out.outcome.rec.image \in DOMAIN images
              /\ images[p_out.outcome.rec.image] = p_out.fetched
        /\ SavedFile => NonEmpty(p_out.fetched)
        /\ (NonEmpty(p_out.fetched) /\ p_in.fault.at = "none") =>
              /\ SavedFile
              /\ AllLabels(p_in.actions) => Produced
        /\ ~NonEmpty(p_out.fetched) =>
              /\ p_out.outcome = NoneResult
              /\ images = p_out.before
              /\ log = {}
        /\ Deciding(p_in.resps, Http(200, EmptyBytes)) =>
              /\ p_out.fetched = EmptyBytes
              /\ p_out.outcome = NoneResult
              /\ images = p_out.before
        /\ \A g \in DOMAIN p_out.before : images[g] = p_out.before[g]

\* a 503, then an HTTP 200 with an empty body: no record, no file
C19_Witness ==
    /\ p_out.called
    /\ p_in.resps[1] = Http(503, Blob(GroupCid))
    /\ p_in.resps[2] = Http(200, EmptyBytes)
    /\ p_in.fault.at = "none"
    /\ p_out.fetched = EmptyBytes
    /\ p_out.outcome = NoneResult
    /\ images = p_out.before
    /\ images = << >>

-----------------------------------------------------------------------------
(* Claims about images and records, checked under Spec *)

\* the image file of record r exists and holds the payload fetched for r
ImageWritten(r, folder) ==
    /\ r.image \in DOMAIN folder
    /\ folder[r.image] = Blob(r.id)
    /\ Len(folder[r.image]) > 0

\* the lists of records there are: in memory, at JSON_OUT, at JSON_OUT.tmp,
\* and in the results of the futures
RecordsAbout ==
    { dataset[i] : i \in 1..Len(dataset) }
      \cup (IF OnDisk.ok
            THEN { OnDisk.value[i] : i \in 1..Len(OnDisk.value) } ELSE {})
      \cup (IF fileTmp.exists /\ Load(fileTmp.content).ok
            THEN { Load(fileTmp.content).value[i] :
                     i \in 1..Len(Load(fileTmp.content).value) }
            ELSE {})
      \cup { future_to_cid[c].outcome.rec : c \in Succeeded }

\* the worker of c is inside save_image with file g open, writing the
\* payload fetched for c
WritingTo(c, g) ==
    /\ future_to_cid[c].st \in {"open", "write"}
    /\ future_to_cid[c].filename = g
    /\ future_to_cid[c].image_data = Blob(c)

\* C18: in every state, after a kill too, every record of the on-disk
\* document (and every record in memory) names an image file that exists
\* and holds the record's whole payload; the file was there, complete,
\* before the record was appended; image files are never removed, and one
\* changes only while the worker that created it writes its payload, so
\* never once a record names it; and a future whose fetch failed ends
\* without any image file being saved.
C18_ImageBeforeRecord ==
    /\ [](\A r \in RecordsAbout : ImageWritten(r, images))
    /\ [][ /\ Len(dataset') > Len(dataset) =>
                \A i \in (Len(dataset) + 1)..Len(dataset') :
                    ImageWritten(dataset'[i], images)
           /\ \A g \in DOMAIN images : g \in DOMAIN images'
           /\ \A r \in RecordsAbout : images'[r.image] = images[r.image]
           /\ \A g \in DOMAIN images' :
                (g \notin DOMAIN images \/ images'[g] # images[g]) =>
                    \E c \in CIDs :
                        /\ WritingTo(c, g)
                        /\ g \in DOMAIN images => future_to_cid[c].st = "write"
                        /\ \E k \in 0..Len(Blob(c)) :
                              images'[g] = SubSeq(Blob(c), 1, k)
           /\ \A c \in CIDs :
                (future_to_cid[c].st \in {"pending", "request", "sleep"}
                   /\ future_to_cid'[c] # future_to_cid[c]) => images' = images
         ]_vars

\* killed with a's record on disk and its image in the folder; of b's image
\* only a part was written, and no record of b
C18_Witness ==
    /\ pc = "killed"
    /\ OnDisk.ok
    /\ Len(OnDisk.value) = 1
    /\ OnDisk.value[1].id = "a"
    /\ ImageWritten(OnDisk.value[1], images)
    /\ "b.jpg" \in DOMAIN images
    /\ images["b.jpg"] # Blob("b")
    /\ Len(images["b.jpg"]) > 0

====
